---- MODULE Spec2Model ----
(***************************************************************************)
(* murf-mcp installer (src/installation.py): the platform orchestrator,    *)
(* the dependency resolution of install_on_macOS / install_on_windows, the *)
(* configuration merge of update_config_file and the Windows dependency    *)
(* installer install_ffmpeg_on_windows, as a state machine over the        *)
(* persistent resources the installer touches: the client's JSON config    *)
(* files, the user-scope PATH value, the shell profile files, the ffmpeg   *)
(* installation directory and the temporary archives.                      *)
(***************************************************************************)
EXTENDS Integers, Sequences, FiniteSets, TLC

VARIABLES
    os,             \* platform.system() of the host, fixed for a behaviour
    fs,             \* config files: path -> file content
    pc,             \* where the current run of the script stands
    configFilePath, \* argument of the pending update_config_file call
    exitCode,       \* exit status of the run, -1 while it is running
    runs,           \* number of runs of the script started so far
    run,            \* what the current run has done so far
    prev,           \* how the previous run ended
    atStart,        \* the persistent resources when the current run started
    userPath,       \* HKCU\Environment PATH value
    path0,          \* the PATH value before the first invocation
    profiles,       \* shell profile files: file -> lines
    installDir,     \* sub-directories of C:/ffmpeg
    inst,           \* what the last install_ffmpeg_on_windows invocation did
    dl              \* the download of line 124 and what reporthook reported

vars == <<os, fs, pc, configFilePath, exitCode, runs, run, prev, atStart,
          userPath, path0, profiles, installDir, inst, dl>>

mainVars == <<os, fs, pc, configFilePath, exitCode, runs, run, prev, atStart>>

winVars == <<userPath, path0, profiles, installDir, inst, dl>>

(***************************************************************************)
(* Bounds of the model.                                                    *)
(***************************************************************************)
\* runs of the script in one behaviour
MaxRuns == 2

\* length of the PATH value before the first invocation of the installer
MaxPathLen == 2

\* bytes of the downloaded archive
MaxTotal == 6

\* bytes urlretrieve reads in one block
MaxBlock == 4

(***************************************************************************)
(* JSON values as json.load returns them: None, str, list, dict. A dict    *)
(* keeps its keys in insertion order, so it is a sequence of key/value     *)
(* pairs with distinct keys.                                               *)
(***************************************************************************)
JNull == [t |-> "null", s |-> "", items |-> <<>>]

JStr(x) == [t |-> "str", s |-> x, items |-> <<>>]

JList(xs) == [t |-> "list", s |-> "", items |-> xs]

JObj(kvs) == [t |-> "obj", s |-> "", items |-> kvs]

KV(key, val) == [k |-> key, v |-> val]

HasKey(kvs, key) == \E i \in 1..Len(kvs) : kvs[i].k = key

\* dict.get(key): the value, or None when the key is missing
DictGet(kvs, key) ==
    IF HasKey(kvs, key)
    THEN kvs[CHOOSE i \in 1..Len(kvs) : kvs[i].k = key].v
    ELSE JNull

\* d[key] = val: replaces the value in place, or appends a new key
DictSet(kvs, key, val) ==
    IF HasKey(kvs, key)
    THEN [i \in 1..Len(kvs) |-> IF kvs[i].k = key THEN KV(key, val) ELSE kvs[i]]
    ELSE Append(kvs, KV(key, val))

\* number of pairs of a dict with the given key
KeyCount(kvs, key) == Cardinality({i \in 1..Len(kvs) : kvs[i].k = key})

(***************************************************************************)
(* File contents. A file holds no text, text that is no JSON, or a JSON    *)
(* text: the value it parses to and the way it is laid out.                *)
(***************************************************************************)
Absent == [kind |-> "absent", val |-> JNull, fmt |-> ""]

EmptyFile == [kind |-> "empty", val |-> JNull, fmt |-> ""]

InvalidFile == [kind |-> "invalid", val |-> JNull, fmt |-> ""]

JsonFile(v, f) == [kind |-> "json", val |-> v, fmt |-> f]

\* os.path.exists
Exists(path) == fs[path].kind # "absent"

\* json.load: raises JSONDecodeError unless the text is a JSON text
json_load(text) == [raised |-> text.kind # "json", val |-> text.val]

\* f.seek(0); json.dump(config, f, indent=2); f.truncate(): the whole text is
\* replaced by the value laid out with indent 2
json_dump(v) == JsonFile(v, "indent2")

(***************************************************************************)
(* The managed server entry.                                               *)
(***************************************************************************)
\* the dict literal of lines 39-43
ServerEntry(uvx_path, murfAPIKey) ==
    JObj(<< KV("command", uvx_path),
            KV("args", JList(<<JStr("murf-mcp")>>)),
            KV("env", JObj(<<KV("MURF_API_KEY", JStr(murfAPIKey))>>)) >>)

OSTypes == {"Linux", "Darwin", "Windows", "Java"}

UvxResolved == "/usr/local/bin/uvx"

\* a run that never raises, as without check=True
subprocess_run_unchecked(found, check) ==
    [raised |-> FALSE, returncode |-> IF found THEN 0 ELSE 1]

\* subprocess.run([which, tool], check=True): CalledProcessError when the
\* lookup returns non-zero and check is set
subprocess_run(found, check) ==
    [raised |-> check /\ ~found, returncode |-> IF found THEN 0 ELSE 1]

\* get_uvx_path: the lookup's output, "uvx" when the lookup fails, None on an
\* OS that is none of the three
get_uvx_path(os_type, found) ==
    IF os_type \in {"Linux", "Darwin", "Windows"}
    THEN IF subprocess_run(found, TRUE).raised THEN JStr("uvx") ELSE JStr(UvxResolved)
    ELSE JNull

(***************************************************************************)
(* Lines 32-46 of update_config_file on an opened file.                    *)
(***************************************************************************)
FreshConfig == JObj(<<KV("mcpServers", JObj(<<>>))>>)

\* line 33-36: None, or a dict without "mcpServers" (or with None for it),
\* is replaced by a fresh document; anything that is no dict has no .get
Normalise(config) ==
    IF config = JNull THEN [raised |-> FALSE, val |-> FreshConfig]
    ELSE IF config.t # "obj" THEN [raised |-> TRUE, val |-> config]
    ELSE IF DictGet(config.items, "mcpServers") = JNull
         THEN [raised |-> FALSE, val |-> FreshConfig]
         ELSE [raised |-> FALSE, val |-> config]

\* an upsert that assigns a new server mapping holding the managed entry only
UpsertDropOthers(config, uvx_path, murfAPIKey) ==
    [raised |-> FALSE,
     val |-> JObj(DictSet(config.items, "mcpServers",
               JObj(<<KV("Murf", ServerEntry(uvx_path, murfAPIKey))>>)))]

\* line 39: config["mcpServers"]["Murf"] = {...}; item assignment on a str
\* or list raises TypeError
Upsert(config, uvx_path, murfAPIKey) ==
    LET servers == DictGet(config.items, "mcpServers")
    IN  IF servers.t # "obj" THEN [raised |-> TRUE, val |-> config]
        ELSE [raised |-> FALSE,
              val |-> JObj(DictSet(config.items, "mcpServers",
                        JObj(DictSet(servers.items, "Murf",
                               ServerEntry(uvx_path, murfAPIKey)))))]

\* the with-block of lines 31-46: the text the file holds afterwards, and
\* whether an exception left the block
MergeFile(text, uvx_path, murfAPIKey) ==
    LET loaded == json_load(text)
        norm   == Normalise(loaded.val)
        ups    == Upsert(norm.val, uvx_path, murfAPIKey)
    IN  IF loaded.raised \/ norm.raised \/ ups.raised
        THEN [raised |-> TRUE, text |-> text]
        ELSE [raised |-> FALSE, text |-> json_dump(ups.val)]

(***************************************************************************)
(* Strings of the PATH value: sequences of characters. "a" and "b" stand   *)
(* for the characters of directory names, ";" is os.pathsep on Windows.    *)
(***************************************************************************)
Sep == ";"

Alphabet == {"a", "b", Sep}

\* the names a top-level directory of C:/ffmpeg may have
Dirs == {"a", "b"}

\* str(subdirs[0] / "bin"), lines 135 and 157
BinPath(d) == <<d>>

RECURSIVE StringsOfLen(_)
StringsOfLen(n) ==
    IF n = 0 THEN {<<>>}
    ELSE {Append(w, c) : w \in StringsOfLen(n - 1), c \in Alphabet}

StringsUpTo(n) == UNION {StringsOfLen(k) : k \in 0..n}

\* str.split(os.pathsep): the pieces between the separators; "" gives [""]
RECURSIVE Split(_)
Split(str) ==
    IF \A i \in 1..Len(str) : str[i] # Sep THEN <<str>>
    ELSE LET i == CHOOSE j \in 1..Len(str) :
                      str[j] = Sep /\ \A h \in 1..(j - 1) : str[h] # Sep
         IN  <<SubSeq(str, 1, i - 1)>> \o Split(SubSeq(str, i + 1, Len(str)))

\* x in list
InList(x, list) == \E i \in 1..Len(list) : list[i] = x

\* list.count(x)
Count(x, list) == Cardinality({i \in 1..Len(list) : list[i] = x})

\* a membership test that never finds the entry
NotInPathNever(bin_path, current_path) == TRUE

\* line 160: bin_path not in path_entries
NotInPath(bin_path, current_path) == ~InList(bin_path, Split(current_path))

\* a value that holds the bin directory only
NewPathValueOverwrite(current_path, bin_path) == bin_path

\* line 161: the value written back
NewPathValue(current_path, bin_path) ==
    IF current_path # <<>> THEN current_path \o <<Sep>> \o bin_path ELSE bin_path

(***************************************************************************)
(* Shell profile files: the lines of the text (blank lines left out).      *)
(***************************************************************************)
ShellFiles == {".zshrc", ".bashrc", ".profile"}

TextLine == [kind |-> "text", arg |-> <<>>]

MarkerLine == [kind |-> "marker", arg |-> <<>>]

ExportLine(ffmpeg_dir) == [kind |-> "export", arg |-> ffmpeg_dir]

EndLine == [kind |-> "end", arg |-> <<>>]

NoFile == [exists |-> FALSE, lines |-> <<>>]

TextFile(ls) == [exists |-> TRUE, lines |-> ls]

\* the values of SHELL, by the substrings lines 87 and 89 look for
Shells == [zsh : BOOLEAN, bash : BOOLEAN]

\* detect_shell_config, lines 82-92
detect_shell_config(shell) ==
    IF shell.zsh THEN ".zshrc"
    ELSE IF shell.bash THEN ".bashrc"
    ELSE ".profile"

\* a marker test that never finds the marker
MarkerInNever(file) == FALSE

\* lines 101-103: marker in config_text, "" for a file that does not exist
MarkerIn(file) == file.exists /\ InList(MarkerLine, file.lines)

\* update_shell_config, lines 96-111: the file afterwards
update_shell_config(ffmpeg_dir, file) ==
    IF MarkerIn(file) THEN file
    ELSE TextFile(file.lines \o <<MarkerLine, ExportLine(ffmpeg_dir), EndLine>>)

MarkerCount(file) == Count(MarkerLine, file.lines)

(***************************************************************************)
(* install_ffmpeg_on_windows, lines 95-176, on the given state of the      *)
(* host. zipDirs are the top-level directories of the downloaded archive,  *)
(* first is the directory iterdir() lists first, fail is the step that     *)
(* raises ("none" when no step does), winreg tells whether winreg can be   *)
(* imported, unlinkOk whether the temporary archive can be deleted.        *)
(***************************************************************************)
Fails == {"none", "download", "extract", "openkey", "setvalue", "profile"}

InstallOutcome(path, profs, dirs, zipDirs, first, fail, winreg, shell, unlinkOk) ==
    LET subdirs == dirs \cup zipDirs
        bin_path == BinPath(first)
        current_path == IF path.present THEN path.value ELSE <<>>
        config_file == detect_shell_config(shell)
        write == NotInPath(bin_path, current_path)
        \* line 123: the temporary archive is created and kept (delete=False)
        start == [result |-> "raised", bin |-> <<>>, pathWrites |-> 0,
                  profile |-> "none", profileWrites |-> 0,
                  unlinkTried |-> FALSE, tmpLeft |-> TRUE]
        unchanged == [userPath |-> path, profiles |-> profs, installDir |-> dirs,
                      inst |-> start]
        extracted == [unchanged EXCEPT !.installDir = subdirs]
        located == [extracted EXCEPT !.inst.bin = bin_path]
        written == [located EXCEPT
                      !.userPath = [present |-> TRUE,
                                    value |-> NewPathValue(current_path, bin_path)],
                      !.inst.pathWrites = 1,
                      !.inst.profile = config_file]
        patched == [written EXCEPT
                      !.profiles[config_file] =
                          update_shell_config(bin_path, profs[config_file]),
                      !.inst.profileWrites =
                          IF MarkerIn(profs[config_file]) THEN 0 ELSE 1]
        registered == IF write THEN patched ELSE located
        \* lines 172-176: os.unlink, an OSError is printed
        cleaned == [registered EXCEPT
                      !.inst.tmpLeft = ~unlinkOk,
                      !.inst.unlinkTried = TRUE,
                      !.inst.result = "ok"]
    IN  \* lines 123-124
        IF fail = "download" THEN unchanged
        \* lines 128-129
        ELSE IF fail = "extract" THEN unchanged
        \* lines 132-134
        ELSE IF subdirs = {} THEN extracted
        \* lines 144-148
        ELSE IF ~winreg THEN [located EXCEPT !.inst.result = "returned"]
        \* line 150
        ELSE IF fail = "openkey" THEN located
        \* line 163
        ELSE IF write /\ fail = "setvalue" THEN located
        \* lines 165-166
        ELSE IF write /\ fail = "profile" THEN written
        ELSE cleaned

install_ffmpeg_on_windows(zipDirs, first, fail, winreg, shell, unlinkOk) ==
    \E o \in {InstallOutcome(userPath, profiles, installDir,
                            zipDirs, first, fail, winreg, shell, unlinkOk)} :
        /\ userPath' = o.userPath
        /\ profiles' = o.profiles
        /\ installDir' = o.installDir
        /\ inst' = o.inst
        /\ UNCHANGED <<path0, dl>>

\* the inputs of one invocation; an input the invocation never reads (the
\* shell when no step reaches line 165, say) is drawn from one value only
NoShell == [zsh |-> FALSE, bash |-> FALSE]

InstallInputs ==
    LET Zips == {z \in [zipDirs : {{}, {"a"}, {"b"}}, first : Dirs] :
                    \* iterdir() lists a directory that is there; with none
                    \* there the choice is not used
                    \/ z.first \in installDir \cup z.zipDirs
                    \/ installDir \cup z.zipDirs = {} /\ z.first = "a"}
        Rest == [fail : {"download", "extract", "openkey"}, winreg : {TRUE},
                 shell : {NoShell}, unlinkOk : {TRUE}]
                \cup [fail : {"none"}, winreg : {FALSE},
                      shell : {NoShell}, unlinkOk : {TRUE}]
                \cup [fail : {"setvalue"}, winreg : {TRUE},
                      shell : {NoShell}, unlinkOk : BOOLEAN]
                \cup [fail : {"none", "profile"}, winreg : {TRUE},
                      shell : Shells, unlinkOk : BOOLEAN]
    IN  {[zipDirs |-> z.zipDirs, first |-> z.first, fail |-> r.fail,
          winreg |-> r.winreg, shell |-> r.shell, unlinkOk |-> r.unlinkOk] :
            z \in Zips, r \in Rest}

(***************************************************************************)
(* The download of line 124. urlretrieve calls the hook with block number  *)
(* 0 when the connection is made and with the next block number after each *)
(* block it has read; total_size is the Content-Length, -1 without one. A  *)
(* percentage is the exact quotient num / den.                             *)
(***************************************************************************)
\* reporthook, lines 113-117: percent
reporthook(block_num, block_size, total_size) ==
    LET downloaded == block_num * block_size
    IN  IF total_size > 0
        THEN [num |-> downloaded * 100, den |-> total_size]
        ELSE [num |-> 0, den |-> 1]

NoPercent == [num |-> 0, den |-> 1]

NoDownload ==
    [len |-> 0, total_size |-> -1, block_size |-> 1, read |-> 0, block_num |-> -1,
     percent |-> NoPercent, last |-> NoPercent, done |-> FALSE]

\* the states a download starts in: len bytes to come, announced or not
Downloads ==
    {[NoDownload EXCEPT !.len = n,
                        !.total_size = IF announced THEN n ELSE -1,
                        !.block_size = bs] :
        n \in 0..MaxTotal, announced \in BOOLEAN, bs \in 1..MaxBlock}

\* the first call of the hook, before any block is read
urlretrieve_start ==
    /\ pc = "urlretrieve"
    /\ dl.block_num = -1
    /\ dl' = [dl EXCEPT !.block_num = 0,
                        !.percent = reporthook(0, dl.block_size, dl.total_size),
                        !.last = dl.percent]
    /\ UNCHANGED <<mainVars, userPath, path0, profiles, installDir, inst>>

\* a block is read and reported; an empty read ends the download
urlretrieve_block ==
    /\ pc = "urlretrieve"
    /\ dl.block_num >= 0
    /\ ~dl.done
    /\ LET block == IF dl.len - dl.read < dl.block_size
                    THEN dl.len - dl.read ELSE dl.block_size
       IN  IF block = 0
           THEN dl' = [dl EXCEPT !.done = TRUE]
           ELSE dl' = [dl EXCEPT
                         !.read = @ + block,
                         !.block_num = @ + 1,
                         !.percent = reporthook(dl.block_num + 1, dl.block_size,
                                                dl.total_size),
                         !.last = dl.percent]
    /\ UNCHANGED <<mainVars, userPath, path0, profiles, installDir, inst>>

(***************************************************************************)
(* The files and inputs of the model.                                      *)
(***************************************************************************)
\* the default config path of the platform and a second path the user may type
Paths == {"default", "alt"}

Keys == {"k1", "k2"}

OtherEntry == JObj(<<KV("command", JStr("node"))>>)

\* a prior "Murf" entry with different and extra fields
CustomMurf == JObj(<<KV("command", JStr("node")), KV("disabled", JStr("yes"))>>)

Theme == KV("theme", JStr("dark"))

InitMurfValues == {ServerEntry(JStr("uvx"), "k1"), CustomMurf}

InitServerMaps ==
    {<<>>, <<KV("Other", OtherEntry)>>}
    \cup {<<KV("Murf", m)>> : m \in InitMurfValues}
    \cup {<<KV("Other", OtherEntry), KV("Murf", m)>> : m \in InitMurfValues}
    \cup {<<KV("Murf", m), KV("Other", OtherEntry)>> : m \in InitMurfValues}

\* values of "mcpServers": null, something that is no mapping, a mapping
InitMcpValues == {JNull, JList(<<>>)} \cup {JObj(sm) : sm \in InitServerMaps}

InitDocs ==
    {JNull, JList(<<>>), JObj(<<>>), JObj(<<Theme>>)}
    \cup {JObj(<<KV("mcpServers", m)>>) : m \in InitMcpValues}
    \cup {JObj(<<Theme, KV("mcpServers", m)>>) : m \in InitMcpValues}
    \cup {JObj(<<KV("mcpServers", m), Theme>>) : m \in InitMcpValues}

InitContents ==
    {Absent, EmptyFile, InvalidFile}
    \cup {JsonFile(d, f) : d \in InitDocs, f \in {"compact", "indent2"}}

\* what the second path may hold at the start
AltContents ==
    {Absent, EmptyFile,
     JsonFile(JObj(<<Theme>>), "compact"),
     JsonFile(JObj(<<KV("mcpServers", JObj(<<KV("Other", OtherEntry)>>))>>), "indent2")}

\* the config files, the PATH value and the shell profiles as they are
Snapshot == [fs |-> fs, userPath |-> userPath, profiles |-> profiles]

FreshRun ==
    [pyStepOk |-> FALSE, brewPresent |-> FALSE, ffmpegPresent |-> FALSE,
     pathPrompts |-> 0, keyPrompts |-> 0, brewLookup |-> "none",
     ffmpegLookup |-> "none", installStep |-> "none", depsDone |-> FALSE,
     target |-> "none", key |-> "none", uvx |-> JNull, merged |-> FALSE,
     pre |-> Absent]

NoPrev ==
    [target |-> "none", key |-> "none", uvx |-> JNull, merged |-> FALSE,
     post |-> Absent]

NoInst ==
    [result |-> "none", bin |-> <<>>, pathWrites |-> 0, profile |-> "none",
     profileWrites |-> 0, unlinkTried |-> FALSE, tmpLeft |-> FALSE]

Init ==
    /\ os \in OSTypes
    /\ fs \in {f \in [Paths -> InitContents] : f["alt"] \in AltContents}
    /\ pc = "main"
    /\ configFilePath = "none"
    /\ exitCode = -1
    /\ runs = 1
    /\ run = FreshRun
    /\ prev = NoPrev
    /\ userPath = [present |-> FALSE, value |-> <<>>]
    /\ path0 = userPath
    /\ profiles = [f \in ShellFiles |-> NoFile]
    /\ installDir = {}
    /\ inst = NoInst
    /\ dl = NoDownload
    /\ atStart = Snapshot

Exit(code) == pc' = "exit" /\ exitCode' = code

(***************************************************************************)
(* main, lines 200-212.                                                    *)
(***************************************************************************)
main ==
    /\ pc = "main"
    /\ IF os = "Linux" THEN Exit(0)
       ELSE IF os = "Darwin" THEN pc' = "install_on_macOS" /\ UNCHANGED exitCode
       ELSE IF os = "Windows" THEN pc' = "install_on_windows" /\ UNCHANGED exitCode
       ELSE Exit(1)
    /\ UNCHANGED <<os, fs, configFilePath, runs, run, prev, atStart>>
    /\ UNCHANGED winVars

(***************************************************************************)
(* Lines 58-71 of install_on_macOS: what the dependency resolution does    *)
(* for the given state of the host.                                        *)
(***************************************************************************)
MacDeps(pyOk, uvPresent, brewPresent, ffmpegPresent) ==
    LET none == [outcome |-> "raise", brewLookup |-> "none",
                 ffmpegLookup |-> "none", installStep |-> "none"]
        rb == subprocess_run(brewPresent, TRUE)
        rf == subprocess_run(ffmpegPresent, TRUE)
    IN  \* line 61: running uv when uv is not installed raises FileNotFoundError
        IF ~pyOk /\ ~uvPresent THEN none
        ELSE IF rb.raised THEN [none EXCEPT !.brewLookup = "absent"]
        ELSE IF rb.returncode # 0
             THEN [none EXCEPT !.outcome = "return", !.brewLookup = "absent"]
        ELSE IF rf.raised
             THEN [none EXCEPT !.brewLookup = "found", !.ffmpegLookup = "absent"]
        ELSE IF rf.returncode = 0
             THEN [outcome |-> "continue", brewLookup |-> "found",
                   ffmpegLookup |-> "found", installStep |-> "none"]
             ELSE [outcome |-> "continue", brewLookup |-> "found",
                   ffmpegLookup |-> "absent", installStep |-> "brew"]

install_on_macOS ==
    /\ pc = "install_on_macOS"
    /\ \E pyOk \in BOOLEAN, uvPresent \in BOOLEAN,
          brewPresent \in BOOLEAN, ffmpegPresent \in BOOLEAN :
          LET d == MacDeps(pyOk, uvPresent, brewPresent, ffmpegPresent)
          IN  /\ run' = [run EXCEPT !.pyStepOk = pyOk \/ uvPresent,
                                    !.brewPresent = brewPresent,
                                    !.ffmpegPresent = ffmpegPresent,
                                    !.brewLookup = d.brewLookup,
                                    !.ffmpegLookup = d.ffmpegLookup,
                                    !.installStep = d.installStep,
                                    !.depsDone = (d.outcome = "continue")]
              /\ IF d.outcome = "continue"
                 THEN /\ pc' = "update_config_file"
                      /\ configFilePath' = "default"
                      /\ UNCHANGED exitCode
                 ELSE /\ Exit(IF d.outcome = "return" THEN 0 ELSE 1)
                      /\ UNCHANGED configFilePath
    /\ UNCHANGED <<os, fs, runs, prev, atStart>>
    /\ UNCHANGED winVars

(***************************************************************************)
(* update_config_file, lines 26-54. The recursive call of line 52 is the   *)
(* same action taken again with the corrected path.                        *)
(***************************************************************************)
update_config_file ==
    /\ pc = "update_config_file"
    /\ IF Exists(configFilePath)
       THEN \E murfAPIKey \in Keys, uvxFound \in BOOLEAN :
              LET uvx_path == get_uvx_path(os, uvxFound)
                  m == MergeFile(fs[configFilePath], uvx_path, murfAPIKey)
              IN  /\ fs' = [fs EXCEPT ![configFilePath] = m.text]
                  /\ run' = [run EXCEPT !.keyPrompts = @ + 1,
                                        !.target = configFilePath,
                                        !.key = murfAPIKey,
                                        !.uvx = IF m.raised THEN JNull ELSE uvx_path,
                                        !.merged = ~m.raised,
                                        !.pre = fs[configFilePath]]
                  /\ Exit(IF m.raised THEN 1 ELSE 0)
                  /\ UNCHANGED configFilePath
       ELSE \E new_path \in Paths :
              /\ run' = [run EXCEPT !.pathPrompts = @ + 1]
              /\ IF Exists(new_path)
                 THEN /\ configFilePath' = new_path
                      /\ UNCHANGED <<pc, exitCode>>
                 ELSE /\ Exit(1)
                      /\ UNCHANGED configFilePath
              /\ UNCHANGED fs
    /\ UNCHANGED <<os, runs, prev, atStart>>
    /\ UNCHANGED winVars

(***************************************************************************)
(* The script is run again on the same host (line 214).                    *)
(***************************************************************************)
Rerun ==
    /\ pc = "exit"
    /\ runs < MaxRuns
    /\ pc' = "main"
    /\ exitCode' = -1
    /\ runs' = runs + 1
    /\ prev' = [target |-> run.target, key |-> run.key, uvx |-> run.uvx,
                merged |-> run.merged,
                post |-> IF run.target = "none" THEN Absent ELSE fs[run.target]]
    /\ run' = FreshRun
    /\ configFilePath' = "none"
    /\ atStart' = Snapshot
    /\ UNCHANGED <<os, fs>>
    /\ UNCHANGED winVars

(***************************************************************************)
(* Lines 180-191 of install_on_windows.                                    *)
(***************************************************************************)
\* a dependency resolution that goes on whatever the lookup says
WinDepsSwallow(pyOk, uvPresent, ffmpegPresent) ==
    [outcome |-> "continue",
     ffmpegLookup |-> IF ffmpegPresent THEN "found" ELSE "absent",
     installStep |-> "none"]

WinDeps(pyOk, uvPresent, ffmpegPresent) ==
    LET rf == subprocess_run(ffmpegPresent, TRUE)
    IN  IF ~pyOk /\ ~uvPresent
        THEN [outcome |-> "raise", ffmpegLookup |-> "none", installStep |-> "none"]
        ELSE IF rf.raised
        THEN [outcome |-> "raise", ffmpegLookup |-> "absent", installStep |-> "none"]
        ELSE IF rf.returncode = 0
        THEN [outcome |-> "continue", ffmpegLookup |-> "found", installStep |-> "none"]
        ELSE [outcome |-> "continue", ffmpegLookup |-> "absent", installStep |-> "windows"]

install_on_windows ==
    /\ pc = "install_on_windows"
    /\ \E pyOk \in BOOLEAN, uvPresent \in BOOLEAN, ffmpegPresent \in BOOLEAN,
          appdata \in BOOLEAN :
          LET d == WinDeps(pyOk, uvPresent, ffmpegPresent)
              installed == d.installStep = "windows"
          IN  /\ IF installed
                 THEN \E i \in InstallInputs :
                        install_ffmpeg_on_windows(i.zipDirs, i.first, i.fail,
                                                  i.winreg, i.shell, i.unlinkOk)
                 ELSE UNCHANGED winVars
              \* line 191: Path(None, ...) raises TypeError when APPDATA is unset
              /\ LET ok == /\ d.outcome = "continue"
                           /\ installed => inst'.result # "raised"
                           /\ appdata
                 IN  /\ run' = [run EXCEPT !.pyStepOk = pyOk \/ uvPresent,
                                           !.ffmpegPresent = ffmpegPresent,
                                           !.ffmpegLookup = d.ffmpegLookup,
                                           !.installStep = d.installStep,
                                           !.depsDone = /\ d.outcome = "continue"
                                                        /\ installed => inst'.result # "raised"]
                     /\ IF ok
                        THEN /\ pc' = "update_config_file"
                             /\ configFilePath' = "default"
                             /\ UNCHANGED exitCode
                        ELSE /\ Exit(1)
                             /\ UNCHANGED configFilePath
    /\ UNCHANGED <<os, fs, runs, prev, atStart>>

Next ==
    \/ main
    \/ install_on_macOS
    \/ install_on_windows
    \/ update_config_file
    \/ Rerun

Spec == Init /\ [][Next]_vars

(***************************************************************************)
(* install_ffmpeg_on_windows invoked on its own, any number of times, on a *)
(* Windows host.                                                           *)
(***************************************************************************)
InitProfiles ==
    {NoFile, TextFile(<<TextLine>>),
     TextFile(<<TextLine, MarkerLine, ExportLine(BinPath("a")), EndLine>>)}

InitWin ==
    /\ os = "Windows"
    /\ fs = [p \in Paths |-> Absent]
    /\ pc = "install_ffmpeg_on_windows"
    /\ configFilePath = "none"
    /\ exitCode = -1
    /\ runs = 1
    /\ run = FreshRun
    /\ prev = NoPrev
    /\ userPath \in {[present |-> FALSE, value |-> <<>>]}
                    \cup {[present |-> TRUE, value |-> w] : w \in StringsUpTo(MaxPathLen)}
    /\ path0 = userPath
    /\ profiles \in {[f \in ShellFiles |-> c] : c \in InitProfiles}
    /\ installDir \in SUBSET Dirs
    /\ inst = NoInst
    /\ dl = NoDownload
    /\ atStart = Snapshot

Invoke ==
    /\ pc = "install_ffmpeg_on_windows"
    /\ \E i \in InstallInputs :
          install_ffmpeg_on_windows(i.zipDirs, i.first, i.fail,
                                    i.winreg, i.shell, i.unlinkOk)
    /\ UNCHANGED mainVars

NextWin == Invoke

SpecWin == InitWin /\ [][NextWin]_vars

(***************************************************************************)
(* The download of line 124 on its own.                                    *)
(***************************************************************************)
InitDl ==
    /\ os = "Windows"
    /\ fs = [p \in Paths |-> Absent]
    /\ pc = "urlretrieve"
    /\ configFilePath = "none"
    /\ exitCode = -1
    /\ runs = 1
    /\ run = FreshRun
    /\ prev = NoPrev
    /\ userPath = [present |-> FALSE, value |-> <<>>]
    /\ path0 = userPath
    /\ profiles = [f \in ShellFiles |-> NoFile]
    /\ installDir = {}
    /\ inst = NoInst
    /\ dl \in Downloads
    /\ atStart = Snapshot

NextDl ==
    \/ urlretrieve_start
    \/ urlretrieve_block

SpecDl == InitDl /\ [][NextDl]_vars

(***************************************************************************)
(* Properties of the configuration merge.                                  *)
(***************************************************************************)
\* the run has ended after update_config_file opened a config file
Opened == pc = "exit" /\ run.target # "none"

IsObj(text) == text.kind = "json" /\ text.val.t = "obj"

Servers(text) == DictGet(text.val.items, "mcpServers")

\* every pair of the dict before, but the one with the given key, is a pair of
\* the dict after, with the same value and once
Preserved(before, after, except) ==
    \A i \in 1..Len(before) :
        before[i].k # except =>
            /\ KeyCount(after, before[i].k) = 1
            /\ DictGet(after, before[i].k) = before[i].v

\* C1: a config file that parses to a JSON object with an "mcpServers" mapping
\* holds, once update_config_file has completed, exactly one "Murf" entry under
\* "mcpServers", and every other server entry it held before, with the same value.
C1_NonDestructiveMerge ==
    (Opened /\ run.merged /\ IsObj(run.pre) /\ Servers(run.pre).t = "obj") =>
        /\ IsObj(fs[run.target])
        /\ Servers(fs[run.target]).t = "obj"
        /\ KeyCount(Servers(fs[run.target]).items, "Murf") = 1
        /\ Preserved(Servers(run.pre).items, Servers(fs[run.target]).items, "Murf")

C1_Witness ==
    /\ Opened /\ run.merged /\ IsObj(run.pre) /\ Servers(run.pre).t = "obj"
    /\ DictGet(Servers(run.pre).items, "Murf") = CustomMurf
    /\ DictGet(Servers(fs[run.target]).items, "Other") = OtherEntry

\* C2: when the document parses to an object without the "mcpServers" mapping,
\* update_config_file starts a fresh server mapping and every top-level key the
\* document had is in the written file, unchanged.
C2_TopLevelKeysPreserved ==
    (Opened /\ IsObj(run.pre) /\ ~HasKey(run.pre.val.items, "mcpServers")) =>
        /\ run.merged
        /\ IsObj(fs[run.target])
        /\ Servers(fs[run.target]).t = "obj"
        /\ Preserved(run.pre.val.items, fs[run.target].val.items, "mcpServers")

\* C3: when the config file exists and its content is empty or no valid JSON,
\* update_config_file does not fail: the "Murf" entry is written into a fresh
\* server mapping and the run ends with exit status 0.
C3_InvalidContentRecovered ==
    (Opened /\ run.pre.kind \in {"empty", "invalid"}) =>
        /\ exitCode = 0
        /\ run.merged
        /\ IsObj(fs[run.target])
        /\ HasKey(Servers(fs[run.target]).items, "Murf")

\* two runs in a row have opened the same config file with the same API key and
\* the same resolved uvx path
SameInputsTwice ==
    /\ Opened
    /\ prev.target = run.target
    /\ prev.key = run.key
    /\ prev.uvx = run.uvx

\* C4: for every starting document, after update_config_file has run twice with
\* the same API key and uvx path the document is the one the first run left,
\* and its "Murf" entry is exactly {command, args, env} built from the inputs.
C4_MergeIdempotent ==
    SameInputsTwice =>
        /\ fs[run.target] = prev.post
        /\ IsObj(fs[run.target])
        /\ DictGet(Servers(fs[run.target]).items, "Murf")
             = JObj(<< KV("command", run.uvx),
                       KV("args", JList(<<JStr("murf-mcp")>>)),
                       KV("env", JObj(<<KV("MURF_API_KEY", JStr(run.key))>>)) >>)

(***************************************************************************)
(* Properties of the orchestration.                                        *)
(***************************************************************************)
\* C5: on an OS that is neither macOS nor Windows the run takes no dependency
\* or configuration step and ends with a non-zero exit status.
C5_UnsupportedOsFails ==
    (pc = "exit" /\ os \notin {"Darwin", "Windows"}) =>
        /\ exitCode # 0
        /\ run = FreshRun

\* C6: when the ffmpeg lookup reports ffmpeg absent, the run reaches the install
\* step of the platform: install_ffmpeg_on_windows on Windows, brew install
\* ffmpeg on macOS.
C6_AbsentFfmpegInstalled ==
    run.ffmpegLookup = "absent" =>
        run.installStep = (IF os = "Windows" THEN "windows" ELSE "brew")

\* C7: when ffmpeg resolves on the path, dependency resolution takes no install
\* step, needs no other prerequisite (the package manager, say) and the run
\* goes on to the configuration merge.
C7_PresentFfmpegIsNoOp ==
    (pc \in {"update_config_file", "exit"} /\ os \in {"Darwin", "Windows"}
        /\ run.pyStepOk /\ run.ffmpegPresent) =>
        /\ run.installStep = "none"
        /\ run.depsDone

(***************************************************************************)
(* Properties of the recovery of a missing config path.                    *)
(***************************************************************************)
\* C10: when the default config path does not exist the user is asked for a
\* corrected path at most once; if the corrected path exists the merge is done
\* on the file there and the run succeeds, else the run ends with a non-zero
\* exit status and no further prompt.
C10_RecoveryFlow ==
    /\ run.pathPrompts <= 1
    /\ (pc = "exit" /\ run.pathPrompts = 1) =>
          IF run.target # "none"
          THEN /\ run.target # "default"
               /\ run.merged
               /\ exitCode = 0
          ELSE /\ exitCode = 1
               /\ run.keyPrompts = 0

(***************************************************************************)
(* Properties of install_ffmpeg_on_windows.                                *)
(***************************************************************************)
Entries(path) == Split(IF path.present THEN path.value ELSE <<>>)

\* C8: starting from a PATH that holds a bin directory at most once, the bin
\* directory is an entry of PATH at most once in every state, and an invocation
\* that finds its bin directory among the entries does not write PATH.
C8_PathDeduplicated ==
    /\ [](\A d \in Dirs :
            Count(BinPath(d), Entries(path0)) <= 1
                => Count(BinPath(d), Entries(userPath)) <= 1)
    /\ [][(inst'.bin # <<>> /\ Count(inst'.bin, Entries(userPath)) >= 1)
            => (userPath' = userPath /\ inst'.pathWrites = 0)]_vars

\* a second invocation found the bin directory an earlier one had appended
C8_Witness ==
    /\ inst.result = "ok"
    /\ inst.pathWrites = 0
    /\ Count(inst.bin, Entries(userPath)) = 1
    /\ Count(inst.bin, Entries(path0)) = 0

\* C9: the marker block is in a shell profile file at most once, and an
\* invocation that finds the marker in the file appends nothing to it.
C9_ProfileIdempotent ==
    /\ [](\A f \in ShellFiles : MarkerCount(profiles[f]) <= 1)
    /\ [][\A f \in ShellFiles :
            MarkerCount(profiles[f]) >= 1 => profiles'[f] = profiles[f]]_vars

\* an invocation wrote PATH, found the marker in the profile and appended nothing
C9_Witness ==
    /\ inst.result = "ok"
    /\ inst.pathWrites = 1
    /\ inst.profile # "none"
    /\ inst.profileWrites = 0
    /\ MarkerCount(profiles[inst.profile]) = 1

(***************************************************************************)
(* Properties of the download progress.                                    *)
(***************************************************************************)
\* p <= q for quotients with positive denominators
PercentLeq(p, q) == p.num * q.den <= q.num * p.den

\* C11: for a total size > 0 the percentages reported for block numbers 0, 1,
\* 2, ... are non-decreasing, never above 100, and the last one is 100; for a
\* total size <= 0 nothing is divided by zero and 0 is reported.
C11_ProgressReaches100 ==
    dl.block_num >= 0 =>
        /\ dl.percent.den # 0
        /\ dl.total_size <= 0 => dl.percent.num = 0
        /\ dl.total_size > 0 =>
              /\ PercentLeq(dl.last, dl.percent)
              /\ PercentLeq(dl.percent, [num |-> 100, den |-> 1])
              /\ dl.done => dl.percent.num = 100 * dl.percent.den

(***************************************************************************)
(* Properties of the PATH update.                                          *)
(***************************************************************************)
\* C12: whenever install_ffmpeg_on_windows writes the user PATH, the entries of
\* the written value are the entries read before, in the same order, followed
\* by the bin directory (the bin directory alone when PATH was absent or
\* empty); PATH changes in no other way.
C12_PathEntriesPreserved ==
    [][/\ userPath' # userPath => inst'.pathWrites = 1
       /\ inst'.pathWrites = 1 =>
            /\ userPath'.present
            /\ Entries(userPath') =
                 IF ~userPath.present \/ userPath.value = <<>>
                 THEN <<inst'.bin>>
                 ELSE Entries(userPath) \o <<inst'.bin>>]_vars

\* PATH held two entries and the bin directory was appended as the third
C12_Witness ==
    /\ inst.pathWrites = 1
    /\ Len(Entries(path0)) = 2
    /\ Entries(userPath) = Entries(path0) \o <<inst.bin>>

MergerStarted ==
    \/ pc = "update_config_file"
    \/ run.keyPrompts > 0
    \/ run.pathPrompts > 0
    \/ run.target # "none"
    \/ fs # atStart.fs

\* the interpreter step has passed and ffmpeg was found, or was not found and
\* the install step of the platform has run without raising
DepsSucceeded ==
    /\ run.pyStepOk
    /\ \/ run.ffmpegLookup = "found"
       \/ /\ run.ffmpegLookup = "absent"
          /\ run.installStep # "none"
          /\ run.installStep = "windows" => inst.result \in {"ok", "returned"}

\* C15: on macOS and Windows the API-key prompt and every read or write of the
\* config file come after dependency resolution has finished successfully; a
\* run whose dependency resolution aborts never starts the merger and leaves
\* the config file alone.
C15_DepsBeforeMerge ==
    MergerStarted => (os \in {"Darwin", "Windows"} /\ DepsSucceeded)

\* a run has resolved its dependencies and then merged the config file
C15_Witness ==
    /\ pc = "exit"
    /\ exitCode = 0
    /\ run.merged
    /\ run.keyPrompts = 1
    /\ DepsSucceeded
    /\ fs # atStart.fs

(***************************************************************************)
(* Properties of the temporary archive.                                    *)
(***************************************************************************)
\* C14: every invocation of install_ffmpeg_on_windows, which creates the
\* temporary archive, tries to delete it before it ends, on the normal path, on
\* the early return without winreg and on a failure alike; a delete that fails
\* does not make the invocation fail.
C14_TempArchiveCleanup ==
    inst.result # "none" =>
        /\ inst.unlinkTried
        /\ inst.tmpLeft => inst.result = "ok"

====
